---- MODULE Spec2Model ----
(***************************************************************************)
(* A model of the R-tree spatial index of package rtree (0-based node      *)
(* indices, -1 as the "no node" value): Insert, Delete, RangeSearch,       *)
(* PrioritySearch and Extent, translated from the Go source.               *)
(*                                                                         *)
(* Go slices are 0-based and TLA+ sequences 1-based: the node with Go      *)
(* index i is nodes[i+1], and entry slot k of a node is entries[k+1].      *)
(* A run-time panic (index out of range) and a computation that never      *)
(* returns are outcomes of an operation: the field "fail" of a tree value  *)
(* records them ("ok", "panic", "hang", "overflow").                       *)
(***************************************************************************)
EXTENDS Integers, Sequences, FiniteSets, TLC

(***************************************************************************)
(* Bounds of the model and constants of the program.                       *)
(***************************************************************************)
MaxOps == 7
MaxTreeOps == 8

MaxRecordID == 1

MaxCallbackAt == 2

minChildren == 2

maxChildren == 4

\* Boxes given to Insert, Delete and the searches.
Boxes ==
  { [MinX |-> 0, MinY |-> 0, MaxX |-> 1, MaxY |-> 1],
    [MinX |-> 3, MinY |-> 0, MaxX |-> 5, MaxY |-> 1] }

RecordIDs == 0..MaxRecordID

(***************************************************************************)
(* Box arithmetic.                                                         *)
(***************************************************************************)
Min2(a, b) == IF a <= b THEN a ELSE b

Max2(a, b) == IF a >= b THEN a ELSE b

ZeroBox == [MinX |-> 0, MinY |-> 0, MaxX |-> 0, MaxY |-> 0]

overlap(box1, box2) ==
  /\ box1.MinX <= box2.MaxX
  /\ box1.MaxX >= box2.MinX
  /\ box1.MinY <= box2.MaxY
  /\ box1.MaxY >= box2.MinY

combine(box1, box2) ==
  [MinX |-> Min2(box1.MinX, box2.MinX), MinY |-> Min2(box1.MinY, box2.MinY),
   MaxX |-> Max2(box1.MaxX, box2.MaxX), MaxY |-> Max2(box1.MaxY, box2.MaxY)]

area(box) == (box.MaxX - box.MinX) * (box.MaxY - box.MinY)

\* Enlargement of box "existing" to accommodate box "additional".
enlargement(existing, additional) ==
  area(combine(existing, additional)) - area(existing)

\* Squared length of the shortest segment joining two boxes.
squaredEuclideanDistance(b1, b2) ==
  LET dx == Max2(0, Max2(b1.MinX - b2.MaxX, b2.MinX - b1.MaxX))
      dy == Max2(0, Max2(b1.MinY - b2.MaxY, b2.MinY - b1.MaxY))
  IN dx * dx + dy * dy

(***************************************************************************)
(* Nodes, entries and the tree.                                            *)
(***************************************************************************)
ZeroEntry == [box |-> ZeroBox, data |-> 0]

NumSlots == 1 + maxChildren

\* node{isLeaf: leaf}: every other field has Go's zero value.
ZeroNode(leaf) ==
  [entries |-> [k \in 1..NumSlots |-> ZeroEntry], numEntries |-> 0,
   parent |-> 0, isLeaf |-> leaf]

\* The zero value of RTree. Besides the fields of RTree a tree value holds
\* "fail" (how the running operation ended) and "old": the backing array that
\* a pointer taken by condenseTree still points into after append has moved
\* the nodes to a larger array (<< >>: the nodes have not moved).
ZeroTree == [nodes |-> << >>, root |-> 0, fail |-> "ok", old |-> << >>]

\* append(t.nodes, n). Go's append moves the slice to a new backing array when
\* the length has reached the capacity; for the 224-byte node the capacities
\* of a slice grown from nil are 1, 2, 4, 8, 18, 36 (doubling, rounded up to
\* the allocator's size classes).
Reallocates(len) == len \in {0, 1, 2, 4, 8, 18, 36}

appendNode(t, n) ==
  [t EXCEPT !.nodes = Append(@, n),
            !.old = IF t.old = << >> /\ Reallocates(Len(t.nodes)) THEN t.nodes ELSE @]

InRange(t, i) == i >= 0 /\ i < Len(t.nodes)

SlotInRange(k) == k >= 0 /\ k < NumSlots

Node(t, i) == t.nodes[i + 1]

Failed(t, how) == [t EXCEPT !.fail = how]

RECURSIVE boundLoop(_, _, _)
boundLoop(n, i, box) ==
  IF i >= n.numEntries THEN box
  ELSE boundLoop(n, i + 1, combine(box, n.entries[i + 1].box))

\* The box of entry 0 combined with the boxes of entries 1 .. numEntries-1.
calculateBound(n) == boundLoop(n, 1, n.entries[1].box)

hasRoot(t) == t.root # -1 /\ (t.root # 0 \/ Len(t.nodes) # 0)

(***************************************************************************)
(* Insert and its helpers.                                                 *)
(***************************************************************************)
appendRecord(t, nodeIdx, box, recordID) ==
  IF t.fail # "ok" THEN t
  ELSE IF ~InRange(t, nodeIdx) THEN Failed(t, "panic")
  ELSE IF ~SlotInRange(Node(t, nodeIdx).numEntries) THEN Failed(t, "panic")
  ELSE [t EXCEPT !.nodes[nodeIdx + 1].entries[Node(t, nodeIdx).numEntries + 1] =
                     [box |-> box, data |-> recordID],
                 !.nodes[nodeIdx + 1].numEntries = @ + 1]

appendChild(t, nodeIdx, box, childIdx) ==
  IF t.fail # "ok" THEN t
  ELSE IF ~InRange(t, nodeIdx) THEN Failed(t, "panic")
  ELSE IF ~SlotInRange(Node(t, nodeIdx).numEntries) THEN Failed(t, "panic")
  ELSE LET t1 == [t EXCEPT !.nodes[nodeIdx + 1].entries[Node(t, nodeIdx).numEntries + 1] =
                               [box |-> box, data |-> childIdx],
                           !.nodes[nodeIdx + 1].numEntries = @ + 1]
       IN IF ~InRange(t1, childIdx) THEN Failed(t1, "panic")
          ELSE [t1 EXCEPT !.nodes[childIdx + 1].parent = nodeIdx]

RECURSIVE nodeDepthLoop(_, _, _, _)
nodeDepthLoop(t, nodeIdx, d, fuel) ==
  IF ~InRange(t, nodeIdx) THEN [fail |-> "panic", val |-> 0]
  ELSE IF Node(t, nodeIdx).isLeaf THEN [fail |-> "ok", val |-> d]
  ELSE IF fuel = 0 THEN [fail |-> "hang", val |-> 0]
  ELSE nodeDepthLoop(t, Node(t, nodeIdx).entries[1].data, d + 1, fuel - 1)

\* The number of layers of nodes under nodeIdx, following entry 0 down to a
\* leaf. More than Len(t.nodes) interior nodes in the chain mean a cycle: the
\* loop never ends.
nodeDepth(t, nodeIdx) == nodeDepthLoop(t, nodeIdx, 1, Len(t.nodes))

RECURSIVE bestEntryLoop(_, _, _, _, _)
bestEntryLoop(n, box, i, bestDelta, bestEntry) ==
  IF i >= n.numEntries THEN bestEntry
  ELSE LET entryBox == n.entries[i + 1].box
           delta == enlargement(box, entryBox)
       IN IF delta < bestDelta THEN bestEntryLoop(n, box, i + 1, delta, i)
          ELSE IF delta = bestDelta /\ area(entryBox) < area(n.entries[bestEntry + 1].box)
          THEN bestEntryLoop(n, box, i + 1, bestDelta, i)
          ELSE bestEntryLoop(n, box, i + 1, bestDelta, bestEntry)

RECURSIVE chooseBestNodeLoop(_, _, _, _, _)
chooseBestNodeLoop(t, box, node, level, fuel) ==
  IF level = 0 THEN [fail |-> "ok", val |-> node]
  ELSE IF ~InRange(t, node) THEN [fail |-> "panic", val |-> 0]
  ELSE IF fuel = 0 THEN [fail |-> "hang", val |-> 0]
  ELSE LET n == Node(t, node)
           bestEntry == bestEntryLoop(n, box, 1, enlargement(box, n.entries[1].box), 0)
       IN chooseBestNodeLoop(t, box, n.entries[bestEntry + 1].data, level - 1, fuel - 1)

\* A negative level never reaches 0: the descent goes on until it indexes
\* outside the node array, or for ever once it revisits a node.
chooseBestNode(t, box, level) ==
  chooseBestNodeLoop(t, box, t.root, level,
                     IF level > 0 THEN level + 1 ELSE Len(t.nodes) + 1)

RECURSIVE adjustBoxesUpwardsLoop(_, _, _, _)
adjustBoxesUpwardsLoop(t, node, box, fuel) ==
  IF node = t.root THEN t
  ELSE IF ~InRange(t, node) THEN Failed(t, "panic")
  ELSE LET parent == Node(t, node).parent
       IN IF ~InRange(t, parent) THEN Failed(t, "panic")
          ELSE IF fuel = 0 THEN Failed(t, "hang")
          ELSE LET p == Node(t, parent)
                   entries == [k \in 1..NumSlots |->
                                 IF k <= p.numEntries /\ p.entries[k].data = node
                                 THEN [p.entries[k] EXCEPT !.box = combine(@, box)]
                                 ELSE p.entries[k]]
               IN adjustBoxesUpwardsLoop([t EXCEPT !.nodes[parent + 1].entries = entries],
                                         parent, box, fuel - 1)

\* The parent chain is not changed by the walk: more than Len(t.nodes) steps
\* without meeting the root mean a cycle.
adjustBoxesUpwards(t, node, box) ==
  IF t.fail # "ok" THEN t ELSE adjustBoxesUpwardsLoop(t, node, box, Len(t.nodes))

joinRoots(t, r1, r2) ==
  IF t.fail # "ok" THEN t
  ELSE IF ~InRange(t, r1) \/ ~InRange(t, r2) THEN Failed(t, "panic")
  ELSE LET newRoot == Len(t.nodes)
           fresh == [entries |-> [k \in 1..NumSlots |->
                                    IF k = 1 THEN [box |-> calculateBound(Node(t, r1)), data |-> r1]
                                    ELSE IF k = 2 THEN [box |-> calculateBound(Node(t, r2)), data |-> r2]
                                    ELSE ZeroEntry],
                     numEntries |-> 2, parent |-> -1, isLeaf |-> FALSE]
           t1 == appendNode(t, fresh)
           t2 == [t1 EXCEPT !.nodes[r1 + 1].parent = newRoot]
           t3 == [t2 EXCEPT !.nodes[r2 + 1].parent = newRoot]
       IN [t3 EXCEPT !.root = newRoot]

Bit(split, i) == (split \div (2 ^ i)) % 2

OnesCount(split) == Cardinality({i \in 0..(NumSlots - 1) : Bit(split, i) = 1})

\* The two group boxes of a split. hasA and hasB are declared and never set,
\* so each group box is the box of the group's last entry.
RECURSIVE splitBoxesLoop(_, _, _, _, _)
splitBoxesLoop(n, split, i, boxA, boxB) ==
  LET hasA == FALSE
      hasB == FALSE
  IN IF i >= n.numEntries THEN [boxA |-> boxA, boxB |-> boxB]
     ELSE LET entryBox == n.entries[i + 1].box
          IN IF Bit(split, i) = 0
             THEN splitBoxesLoop(n, split, i + 1,
                                 IF hasA THEN combine(boxA, entryBox) ELSE entryBox, boxB)
             ELSE splitBoxesLoop(n, split, i + 1, boxA,
                                 IF hasB THEN combine(boxB, entryBox) ELSE entryBox)

\* best.inf stands for bestArea = +Inf.
RECURSIVE bestSplitLoop(_, _, _, _)
bestSplitLoop(n, split, maxSplit, best) ==
  IF split > maxSplit THEN best.split
  ELSE LET ones == OnesCount(split)
       IN IF ones < minChildren \/ (n.numEntries - ones) < minChildren
          THEN bestSplitLoop(n, split + 1, maxSplit, best)
          ELSE LET boxes == splitBoxesLoop(n, split, 0, ZeroBox, ZeroBox)
                   combinedArea == area(boxes.boxA) + area(boxes.boxB)
               IN IF best.inf \/ combinedArea < best.area
                  THEN bestSplitLoop(n, split + 1, maxSplit,
                                     [inf |-> FALSE, area |-> combinedArea, split |-> split])
                  ELSE bestSplitLoop(n, split + 1, maxSplit, best)

bestSplitOf(n) ==
  bestSplitLoop(n, 1, (2 ^ (n.numEntries - 1)) - 1, [inf |-> TRUE, area |-> 0, split |-> 0])

\* The entries of n whose bit in split is b, in slot order, then zero entries.
splitGroup(n, split, b) ==
  LET idx == SelectSeq([k \in 1..n.numEntries |-> k - 1], LAMBDA i : Bit(split, i) = b)
  IN [entries |-> [k \in 1..NumSlots |->
                     IF k <= Len(idx) THEN n.entries[idx[k] + 1] ELSE ZeroEntry],
      numEntries |-> Len(idx)]

\* Only the first of the children moved gets the new parent.
setParents_FirstOnly(t, node, i, parent) ==
  IF t.fail # "ok" \/ node.numEntries = 0 THEN t
  ELSE IF ~InRange(t, node.entries[1].data) THEN Failed(t, "panic")
  ELSE [t EXCEPT !.nodes[node.entries[1].data + 1].parent = parent]

RECURSIVE setParents(_, _, _, _)
setParents(t, node, i, parent) ==
  IF t.fail # "ok" \/ i >= node.numEntries THEN t
  ELSE IF ~InRange(t, node.entries[i + 1].data) THEN Failed(t, "panic")
  ELSE setParents([t EXCEPT !.nodes[node.entries[i + 1].data + 1].parent = parent],
                  node, i + 1, parent)

\* The second half of splitNode: the new node takes the entries of move, node
\* n keeps those of keep, and the children moved get the new node for parent.
splitInto(t, n, isLeaf, keep, move, newNode) ==
  IF isLeaf
  THEN [appendNode(t, [ZeroNode(isLeaf) EXCEPT !.entries = move.entries,
                                               !.numEntries = move.numEntries])
          EXCEPT !.nodes[n + 1].entries = keep.entries,
                 !.nodes[n + 1].numEntries = keep.numEntries]
  ELSE setParents([appendNode(t, [ZeroNode(isLeaf) EXCEPT !.entries = move.entries,
                                                          !.numEntries = move.numEntries])
                     EXCEPT !.nodes[n + 1].entries = keep.entries,
                            !.nodes[n + 1].numEntries = keep.numEntries],
                  move, 0, newNode)

splitBy(t, n, old, bestSplit) ==
  splitInto(t, n, old.isLeaf, splitGroup(old, bestSplit, 0),
            splitGroup(old, bestSplit, 1), Len(t.nodes))

\* Splits node n: the new node's index is Len(t.nodes).
splitNode(t, n) ==
  IF t.fail # "ok" THEN t
  ELSE IF ~InRange(t, n) \/ Node(t, n).numEntries < 1 THEN Failed(t, "panic")
  ELSE splitBy(t, n, Node(t, n), bestSplitOf(Node(t, n)))

RECURSIVE firstEntryWith(_, _, _)
firstEntryWith(n, i, data) ==
  IF i >= n.numEntries THEN -1
  ELSE IF n.entries[i + 1].data = data THEN i
  ELSE firstEntryWith(n, i + 1, data)

\* The box of the entry of parent that points to n (the first such entry)
\* becomes the bound of n.
adjustParentBox(t, parent, n, i) ==
  IF i = -1 THEN t
  ELSE [t EXCEPT !.nodes[parent + 1].entries[i + 1].box = calculateBound(Node(t, n))]

\* AT4, first half: nn, when there is one, becomes a child of parent.
adjustAppend(t, parent, nn) ==
  IF nn = -1 THEN t
  ELSE IF ~InRange(t, nn) THEN Failed(t, "panic")
  ELSE appendChild(t, parent, calculateBound(Node(t, nn)), nn)

RECURSIVE adjustTreeLoop(_, _, _, _)
RECURSIVE adjustSplit(_, _, _, _)
\* AT4, second half: pp is declared with Go's zero value, 0, and is set only
\* when parent overflows and is split.
adjustSplit(t, parent, nn, fuel) ==
  IF t.fail = "ok" /\ nn # -1 /\ Node(t, parent).numEntries > maxChildren
  THEN adjustTreeLoop(splitNode(t, parent), parent, Len(t.nodes), fuel - 1)
  ELSE adjustTreeLoop(t, parent, 0, fuel - 1)

adjustTreeLoop(t, n, nn, fuel) ==
  IF t.fail # "ok" \/ n = t.root THEN [t |-> t, root1 |-> n, root2 |-> nn]
  ELSE IF ~InRange(t, n) THEN [t |-> Failed(t, "panic"), root1 |-> n, root2 |-> nn]
  ELSE IF ~InRange(t, Node(t, n).parent)
  THEN [t |-> Failed(t, "panic"), root1 |-> n, root2 |-> nn]
  ELSE IF fuel = 0 THEN [t |-> Failed(t, "hang"), root1 |-> n, root2 |-> nn]
  ELSE adjustSplit(
         adjustAppend(
           adjustParentBox(t, Node(t, n).parent, n,
                           firstEntryWith(Node(t, Node(t, n).parent), 0, n)),
           Node(t, n).parent, nn),
         Node(t, n).parent, nn, fuel)

AdjustTreeFuel(t) == 2 * Len(t.nodes) + 2

adjustTree(t, n, nn) == adjustTreeLoop(t, n, nn, AdjustTreeFuel(t))

\* The end of Insert and of reInsertNode: two roots are joined under a new
\* root when adjustTree returned a second one.
joinIfTwo(roots) ==
  IF roots.root2 # -1 THEN joinRoots(roots.t, roots.root1, roots.root2) ELSE roots.t

\* Insert, after the record was appended to leaf and the boxes adjusted.
insertSplit(t, leaf) ==
  IF t.fail # "ok" THEN t
  ELSE IF Node(t, leaf).numEntries <= maxChildren THEN t
  ELSE joinIfTwo(adjustTree(splitNode(t, leaf), leaf, Len(t.nodes)))

\* Insert, once the leaf is chosen.
insertAt(t, leaf, box, recordID) ==
  IF leaf.fail # "ok" THEN Failed(t, leaf.fail)
  ELSE insertSplit(adjustBoxesUpwards(appendRecord(t, leaf.val, box, recordID),
                                      leaf.val, box),
                   leaf.val)

insertLevel(t, depth, box, recordID) ==
  insertAt(t, IF depth.fail = "ok" THEN chooseBestNode(t, box, depth.val - 1) ELSE depth,
           box, recordID)

\* Insert into a tree that has a root.
insertRooted(t, box, recordID) == insertLevel(t, nodeDepth(t, t.root), box, recordID)

Insert(t, box, recordID) ==
  IF t.fail # "ok" THEN t
  ELSE IF ~hasRoot(t)
  THEN insertRooted([appendNode(t, ZeroNode(TRUE)) EXCEPT !.root = Len(t.nodes)],
                    box, recordID)
  ELSE insertRooted(t, box, recordID)

(***************************************************************************)
(* Delete and its helpers.                                                 *)
(***************************************************************************)
\* D1: depth-first search for the first leaf entry holding recordID, through
\* entries whose box overlaps box. node = -1: not found. The search reads the
\* tree only, so a path longer than Len(t.nodes) repeats a node and the
\* recursion never returns ("overflow": the stack runs out).
RECURSIVE findRecord(_, _, _, _, _, _)
findRecord(t, nodeIdx, i, box, recordID, depth) ==
  IF ~InRange(t, nodeIdx) THEN [fail |-> "panic", node |-> -1, entry |-> 0]
  ELSE LET n == Node(t, nodeIdx)
       IN IF i >= n.numEntries THEN [fail |-> "ok", node |-> -1, entry |-> 0]
          ELSE IF ~overlap(n.entries[i + 1].box, box)
          THEN findRecord(t, nodeIdx, i + 1, box, recordID, depth)
          ELSE IF ~n.isLeaf
          THEN IF depth = 0 THEN [fail |-> "overflow", node |-> -1, entry |-> 0]
               ELSE LET sub == findRecord(t, n.entries[i + 1].data, 0, box, recordID, depth - 1)
                    IN IF sub.fail # "ok" \/ sub.node # -1 THEN sub
                       ELSE findRecord(t, nodeIdx, i + 1, box, recordID, depth)
          ELSE IF n.entries[i + 1].data = recordID
          THEN [fail |-> "ok", node |-> nodeIdx, entry |-> i]
          ELSE findRecord(t, nodeIdx, i + 1, box, recordID, depth)

\* deleteEntry without its last statement, n.entries[n.numEntries] = entry{}.
deleteEntry_KeepsLast(t, nodeIdx, entryIdx) ==
  IF t.fail # "ok" THEN t
  ELSE IF ~InRange(t, nodeIdx) THEN Failed(t, "panic")
  ELSE LET n == Node(t, nodeIdx)
       IN IF ~SlotInRange(n.numEntries - 1) \/ ~SlotInRange(entryIdx) THEN Failed(t, "panic")
          ELSE [t EXCEPT !.nodes[nodeIdx + 1].entries =
                             [n.entries EXCEPT ![entryIdx + 1] = n.entries[n.numEntries]],
                         !.nodes[nodeIdx + 1].numEntries = n.numEntries - 1]

deleteEntry(t, nodeIdx, entryIdx) ==
  IF t.fail # "ok" THEN t
  ELSE IF ~InRange(t, nodeIdx) THEN Failed(t, "panic")
  ELSE LET n == Node(t, nodeIdx)
       IN IF ~SlotInRange(n.numEntries - 1) \/ ~SlotInRange(entryIdx) THEN Failed(t, "panic")
          ELSE LET moved == [n.entries EXCEPT ![entryIdx + 1] = n.entries[n.numEntries]]
               IN [t EXCEPT !.nodes[nodeIdx + 1].entries =
                                [moved EXCEPT ![n.numEntries] = ZeroEntry],
                            !.nodes[nodeIdx + 1].numEntries = n.numEntries - 1]

\* CT2 - CT5. deleteEntry leaves the parent chain alone: more than
\* Len(t.nodes) steps without meeting the root mean a cycle.
RECURSIVE condenseLoop(_, _, _, _)
condenseLoop(t, current, eliminated, fuel) ==
  IF t.fail # "ok" \/ current = t.root THEN [t |-> t, eliminated |-> eliminated]
  ELSE IF ~InRange(t, current) THEN [t |-> Failed(t, "panic"), eliminated |-> eliminated]
  ELSE LET parent == Node(t, current).parent
       IN IF ~InRange(t, parent) THEN [t |-> Failed(t, "panic"), eliminated |-> eliminated]
          ELSE IF fuel = 0 THEN [t |-> Failed(t, "hang"), eliminated |-> eliminated]
          ELSE LET entryIdx == firstEntryWith(Node(t, parent), 0, current)
               IN IF Node(t, current).numEntries < minChildren
                  THEN condenseLoop(deleteEntry(t, parent, entryIdx), parent,
                                    Append(eliminated, current), fuel - 1)
                  ELSE IF entryIdx = -1
                  THEN [t |-> Failed(t, "panic"), eliminated |-> eliminated]
                  ELSE condenseLoop([t EXCEPT !.nodes[parent + 1].entries[entryIdx + 1].box =
                                                  calculateBound(Node(t, current))],
                                    parent, eliminated, fuel - 1)

\* reInsertNode, after node was appended to insNode and the boxes adjusted.
reInsertSplit(t, insNode) ==
  IF t.fail # "ok" THEN t
  ELSE IF Node(t, insNode).numEntries <= maxChildren THEN t
  ELSE joinIfTwo(adjustTree(splitNode(t, insNode), insNode, Len(t.nodes)))

\* reInsertNode, once the node to insert into is chosen.
reInsertAt(t, node, box, insNode) ==
  IF insNode.fail # "ok" THEN Failed(t, insNode.fail)
  ELSE reInsertSplit(adjustBoxesUpwards(appendChild(t, insNode.val, box, node), node, box),
                     insNode.val)

reInsertLevel(t, node, box, treeDepth, depth) ==
  reInsertAt(t, node, box,
             IF treeDepth.fail # "ok" THEN treeDepth
             ELSE IF depth.fail # "ok" THEN depth
             ELSE chooseBestNode(t, box, treeDepth.val - depth.val - 1))

reInsertNode(t, node) ==
  IF t.fail # "ok" THEN t
  ELSE IF ~InRange(t, node) THEN Failed(t, "panic")
  ELSE reInsertLevel(t, node, calculateBound(Node(t, node)),
                     nodeDepth(t, t.root), nodeDepth(t, node))

\* What the pointer node := &t.nodes[nodeIdx] of CT6 reads: the node in the
\* array the pointer was taken in.
Pointee(t, nodeIdx) == IF t.old = << >> THEN Node(t, nodeIdx) ELSE t.old[nodeIdx + 1]

\* CT6 for one eliminated node: entry i and the entries after it.
\* CT6 left out: the entries of an eliminated node are not put back.
reinsertEntries_LeftOut(t, nodeIdx, leaf, i) == t

RECURSIVE reinsertEntries(_, _, _, _)
reinsertEntries(t, nodeIdx, leaf, i) ==
  IF t.fail # "ok" \/ i >= Pointee(t, nodeIdx).numEntries THEN t
  ELSE LET e == Pointee(t, nodeIdx).entries[i + 1]
       IN reinsertEntries(IF leaf THEN Insert(t, e.box, e.data) ELSE reInsertNode(t, e.data),
                          nodeIdx, leaf, i + 1)

RECURSIVE reinsertEliminated(_, _, _)
reinsertEliminated(t, eliminated, k) ==
  IF t.fail # "ok" \/ k > Len(eliminated) THEN t
  ELSE LET t0 == [t EXCEPT !.old = << >>]
       IN reinsertEliminated(
            reinsertEntries(t0, eliminated[k], Node(t0, eliminated[k]).isLeaf, 0),
            eliminated, k + 1)

reinsertWalked(walk) == reinsertEliminated(walk.t, walk.eliminated, 1)

condenseTree(t, leaf) == reinsertWalked(condenseLoop(t, leaf, << >>, Len(t.nodes)))

\* D4 without the change of root: the only child loses its parent, and the
\* root stays.
shortenTree_KeepsRoot(t) ==
  IF t.fail # "ok" THEN t
  ELSE IF ~InRange(t, t.root) THEN Failed(t, "panic")
  ELSE LET root == Node(t, t.root)
       IN IF ~root.isLeaf /\ root.numEntries = 1
          THEN IF ~InRange(t, root.entries[1].data) THEN Failed(t, "panic")
               ELSE [t EXCEPT !.nodes[root.entries[1].data + 1].parent = 0]
          ELSE t

\* D4
shortenTree(t) ==
  IF t.fail # "ok" THEN t
  ELSE IF ~InRange(t, t.root) THEN Failed(t, "panic")
  ELSE LET root == Node(t, t.root)
       IN IF ~root.isLeaf /\ root.numEntries = 1
          THEN IF ~InRange(t, root.entries[1].data) THEN Failed(t, "panic")
               ELSE [t EXCEPT !.root = root.entries[1].data,
                              !.nodes[root.entries[1].data + 1].parent = 0]
          ELSE t

\* D2 - D4, with what D1 found.
deleteFound(t, found) ==
  IF found.fail # "ok"
  THEN [t |-> Failed(t, found.fail), ret |-> FALSE, removed |-> ZeroEntry]
  ELSE IF found.node = -1 THEN [t |-> t, ret |-> FALSE, removed |-> ZeroEntry]
  ELSE [t |-> [shortenTree(condenseTree(deleteEntry(t, found.node, found.entry),
                                        found.node)) EXCEPT !.old = << >>],
        ret |-> TRUE,
        removed |-> Node(t, found.node).entries[found.entry + 1]]

\* The tree after Delete, what Delete returns, and the leaf entry it removed.
Delete(t, box, recordID) ==
  IF Len(t.nodes) = 0 THEN [t |-> t, ret |-> FALSE, removed |-> ZeroEntry]
  ELSE deleteFound(t, findRecord(t, t.root, 0, box, recordID, Len(t.nodes)))

(***************************************************************************)
(* The searches and Extent. A callback is modelled by what it returns: nil *)
(* on every invocation but the one numbered "at", where it returns "kind"  *)
(* ("nil", "Stop", or "err" for an error that is not Stop).                *)
(***************************************************************************)
Callbacks ==
  {[kind |-> "nil", at |-> 0]}
    \cup [kind : {"Stop", "err"}, at : 1..MaxCallbackAt]

CallbackReturn(cb, k) == IF k = cb.at THEN cb.kind ELSE "nil"

\* A recurse that takes every non-nil return of the callback for Stop.
rangeAfterCallback_ErrorAsStop(err) ==
  IF err # "nil" THEN [returns |-> TRUE, err |-> "nil"]
  ELSE [returns |-> FALSE, err |-> "nil"]

\* What recurse does with the callback's return value in a leaf: return nil
\* on Stop, return the error on any other error, go on to the next entry on
\* nil.
rangeAfterCallback(err) ==
  IF err = "Stop" THEN [returns |-> TRUE, err |-> "nil"]
  ELSE IF err # "nil" THEN [returns |-> TRUE, err |-> err]
  ELSE [returns |-> FALSE, err |-> "nil"]

\* recurse of RangeSearch from entry i of node nodeIdx; calls are the leaf
\* entries whose record ID the callback has been invoked with. err is what
\* recurse returns; a panic and a recursion that never returns unwind like an
\* error.
RECURSIVE rangeRecurse(_, _, _, _, _, _, _)
rangeRecurse(t, nodeIdx, i, box, cb, calls, depth) ==
  IF ~InRange(t, nodeIdx) THEN [calls |-> calls, err |-> "panic"]
  ELSE LET n == Node(t, nodeIdx)
       IN IF i >= n.numEntries THEN [calls |-> calls, err |-> "nil"]
          ELSE IF ~overlap(n.entries[i + 1].box, box)
          THEN rangeRecurse(t, nodeIdx, i + 1, box, cb, calls, depth)
          ELSE IF n.isLeaf
          THEN LET called == Append(calls, n.entries[i + 1])
                   after == rangeAfterCallback(CallbackReturn(cb, Len(called)))
               IN IF after.returns THEN [calls |-> called, err |-> after.err]
                  ELSE rangeRecurse(t, nodeIdx, i + 1, box, cb, called, depth)
          ELSE IF depth = 0 THEN [calls |-> calls, err |-> "overflow"]
          ELSE LET sub == rangeRecurse(t, n.entries[i + 1].data, 0, box, cb, calls, depth - 1)
               IN IF sub.err # "nil" THEN sub
                  ELSE rangeRecurse(t, nodeIdx, i + 1, box, cb, sub.calls, depth)

\* A recursion deeper than Len(t.nodes) * (cb.at + 2) has revisited a node
\* with the callback in the same state: it never returns.
RangeSearch(t, box, cb) ==
  IF t.root >= Len(t.nodes) THEN [calls |-> << >>, err |-> "nil"]
  ELSE rangeRecurse(t, t.root, 0, box, cb, << >>, Len(t.nodes) * (cb.at + 2))

\* container/heap over entriesQueue: queue[k + 1] is q.entries[k].
Less(queue, origin, i, j) ==
  squaredEuclideanDistance(queue[i + 1].box, origin)
    < squaredEuclideanDistance(queue[j + 1].box, origin)

Swap(queue, i, j) == [queue EXCEPT ![i + 1] = queue[j + 1], ![j + 1] = queue[i + 1]]

RECURSIVE heapUp(_, _, _)
heapUp(queue, origin, j) ==
  LET i == IF j = 0 THEN 0 ELSE (j - 1) \div 2
  IN IF i = j \/ ~Less(queue, origin, j, i) THEN queue
     ELSE heapUp(Swap(queue, i, j), origin, i)

RECURSIVE heapDown(_, _, _, _)
heapDown(queue, origin, i, n) ==
  LET j1 == 2 * i + 1
  IN IF j1 >= n THEN queue
     ELSE LET j == IF j1 + 1 < n /\ Less(queue, origin, j1 + 1, j1) THEN j1 + 1 ELSE j1
          IN IF ~Less(queue, origin, j, i) THEN queue
             ELSE heapDown(Swap(queue, i, j), origin, j, n)

heapPush(queue, origin, x) == heapUp(Append(queue, x), origin, Len(queue))

\* heap.Pop: the queue with its least element moved to the last place.
heapPop(queue, origin) ==
  heapDown(Swap(queue, 0, Len(queue) - 1), origin, 0, Len(queue) - 1)

RECURSIVE equeueNode(_, _, _, _)
equeueNode(queue, origin, n, i) ==
  IF i >= n.numEntries THEN queue
  ELSE equeueNode(heapPush(queue, origin,
                           [box |-> n.entries[i + 1].box, data |-> n.entries[i + 1].data,
                            hasChild |-> ~n.isLeaf]),
                  origin, n, i + 1)

\* A loop that goes on to the next entry whatever the callback returned.
priorityAfterCallback_NeverReturns(err) == [returns |-> FALSE, err |-> "nil"]

\* What the loop of PrioritySearch does with the callback's return value:
\* return nil on Stop, return the error on any other error, go on on nil.
priorityAfterCallback(err) ==
  IF err # "nil"
  THEN [returns |-> TRUE, err |-> IF err = "Stop" THEN "nil" ELSE err]
  ELSE [returns |-> FALSE, err |-> "nil"]

RECURSIVE prioritySearchLoop(_, _, _, _, _, _)
prioritySearchLoop(t, origin, cb, queue, calls, fuel) ==
  IF Len(queue) = 0 THEN [calls |-> calls, err |-> "nil"]
  ELSE IF fuel = 0 THEN [calls |-> calls, err |-> "hang"]
  ELSE LET popped == heapPop(queue, origin)
           nearest == popped[Len(popped)]
           rest == SubSeq(popped, 1, Len(popped) - 1)
       IN IF ~nearest.hasChild
          THEN LET called == Append(calls, [box |-> nearest.box, data |-> nearest.data])
                   after == priorityAfterCallback(CallbackReturn(cb, Len(called)))
               IN IF after.returns THEN [calls |-> called, err |-> after.err]
                  ELSE prioritySearchLoop(t, origin, cb, rest, called, fuel - 1)
          ELSE IF ~InRange(t, nearest.data) THEN [calls |-> calls, err |-> "panic"]
          ELSE prioritySearchLoop(t, origin, cb,
                                  equeueNode(rest, origin, Node(t, nearest.data), 0),
                                  calls, fuel - 1)

\* A search of a tree pops each entry once; a search that has popped more
\* than this is going round a cycle of nodes and never ends.
PrioritySearchFuel(t) == 4 * NumSlots * Len(t.nodes)

PrioritySearch(t, box, cb) ==
  IF ~hasRoot(t) THEN [calls |-> << >>, err |-> "nil"]
  ELSE prioritySearchLoop(t, box, cb, equeueNode(<< >>, box, Node(t, t.root), 0),
                          << >>, PrioritySearchFuel(t))

Extent(t) ==
  IF ~hasRoot(t) \/ Node(t, t.root).numEntries = 0
  THEN [box |-> ZeroBox, ok |-> FALSE]
  ELSE [box |-> calculateBound(Node(t, t.root)), ok |-> TRUE]

(***************************************************************************)
(* The renoder. An XY is [X, Y], a line is [a, b], a Sequence is a         *)
(* sequence of XYs and a Geometry is a record with a type: a Point and a   *)
(* LineString hold a Sequence (that of an empty Point is empty), a         *)
(* MultiPoint, a MultiLineString and a GeometryCollection hold their       *)
(* children. Coordinates are whole numbers, on a grid fine enough for      *)
(* every crossing point of two lines of the inputs to be a whole number.   *)
(***************************************************************************)
XYLess(p, q) == p.X < q.X \/ (p.X = q.X /\ p.Y < q.Y)

\* The line from point i to point i + 1 of seq, and whether there is one of
\* non-zero length.
getLine(seq, i) ==
  IF i < 0 \/ i + 1 >= Len(seq)
  THEN [ln |-> [a |-> [X |-> 0, Y |-> 0], b |-> [X |-> 0, Y |-> 0]], ok |-> FALSE]
  ELSE [ln |-> [a |-> seq[i + 1], b |-> seq[i + 2]], ok |-> seq[i + 1] # seq[i + 2]]

\* ln.envelope().box()
lineBox(ln) ==
  [MinX |-> Min2(ln.a.X, ln.b.X), MinY |-> Min2(ln.a.Y, ln.b.Y),
   MaxX |-> Max2(ln.a.X, ln.b.X), MaxY |-> Max2(ln.a.Y, ln.b.Y)]

xyBox(xy) == [MinX |-> xy.X, MinY |-> xy.Y, MaxX |-> xy.X, MaxY |-> xy.Y]

crossProduct(p, q, r) == (q.X - p.X) * (r.Y - p.Y) - (q.Y - p.Y) * (r.X - p.X)

\* On which side of the line through p and q the point r lies.
orientation(p, q, r) ==
  IF crossProduct(p, q, r) > 0 THEN 1 ELSE IF crossProduct(p, q, r) < 0 THEN -1 ELSE 0

XYMin(p, q) == IF XYLess(q, p) THEN q ELSE p

XYMax(p, q) == IF XYLess(p, q) THEN q ELSE p

onePoint(p) == [empty |-> FALSE, ptA |-> p, ptB |-> p]

noPoint == [empty |-> TRUE, ptA |-> [X |-> 0, Y |-> 0], ptB |-> [X |-> 0, Y |-> 0]]

\* The point where the lines through a, b and through c, d cross, for lines
\* that are not parallel: a + (e / f) * (b - a).
crossingAt(a, b, e, f) ==
  IF f < 0 THEN [X |-> a.X + ((0 - e) * (b.X - a.X)) \div (0 - f),
                 Y |-> a.Y + ((0 - e) * (b.Y - a.Y)) \div (0 - f)]
  ELSE [X |-> a.X + (e * (b.X - a.X)) \div f, Y |-> a.Y + (e * (b.Y - a.Y)) \div f]

crossingPoint(a, b, c, d) ==
  crossingAt(a, b, crossProduct(c, d, a), crossProduct(c, d, a) - crossProduct(c, d, b))

\* The part two collinear lines share, from its least to its greatest point.
sharedPart(lo, hi) ==
  IF XYLess(hi, lo) THEN noPoint ELSE [empty |-> FALSE, ptA |-> lo, ptB |-> hi]

onSides(a, b, c, d, o1, o2, o3, o4) ==
  IF o1 # o2 /\ o3 # o4
  THEN IF o1 = 0 THEN onePoint(c)
       ELSE IF o2 = 0 THEN onePoint(d)
       ELSE IF o3 = 0 THEN onePoint(a)
       ELSE IF o4 = 0 THEN onePoint(b)
       ELSE onePoint(crossingPoint(a, b, c, d))
  ELSE IF o1 = 0 /\ o2 = 0
  THEN sharedPart(XYMax(XYMin(a, b), XYMin(c, d)), XYMin(XYMax(a, b), XYMax(c, d)))
  ELSE noPoint

\* The intersection of two lines of non-zero length: nothing, one point
\* (ptA = ptB) or the two ends of the part they share.
intersectLine(ln, other) ==
  onSides(ln.a, ln.b, other.a, other.b,
          orientation(ln.a, ln.b, other.a), orientation(ln.a, ln.b, other.b),
          orientation(other.a, other.b, ln.a), orientation(other.a, other.b, ln.b))

\* Whether the line contains the point.
intersectsXY(ln, xy) == orientation(ln.a, ln.b, xy) = 0 /\ overlap(lineBox(ln), xyBox(xy))

RECURSIVE insertXY(_, _)
insertXY(sorted, xy) ==
  IF sorted = << >> THEN <<xy>>
  ELSE IF XYLess(xy, Head(sorted)) THEN <<xy>> \o sorted
  ELSE <<Head(sorted)>> \o insertXY(Tail(sorted), xy)

RECURSIVE sortXYs(_)
sortXYs(xys) ==
  IF xys = << >> THEN << >> ELSE insertXY(sortXYs(Tail(xys)), Head(xys))

RECURSIVE uniquifyXYs(_)
uniquifyXYs(xys) ==
  IF Len(xys) <= 1 THEN xys
  ELSE IF xys[1] = xys[2] THEN uniquifyXYs(Tail(xys))
  ELSE <<xys[1]>> \o uniquifyXYs(Tail(xys))

\* The points in the order of XYLess, each of them once.
sortAndUniquifyXYs(xys) == uniquifyXYs(sortXYs(xys))

\* The lines of a geometry, in the order of the walk.
RECURSIVE seqLines(_, _, _)
seqLines(lines, seq, i) ==
  IF i >= Len(seq) THEN lines
  ELSE seqLines(IF getLine(seq, i).ok THEN Append(lines, getLine(seq, i).ln) ELSE lines,
                seq, i + 1)

RECURSIVE appendLines(_, _)
RECURSIVE childLines(_, _, _)
appendLines(lines, g) ==
  IF g.type = "LineString" THEN seqLines(lines, g.seq, 0)
  ELSE IF g.type \in {"MultiLineString", "GeometryCollection"} THEN childLines(lines, g.geoms, 0)
  ELSE lines

childLines(lines, geoms, i) ==
  IF i >= Len(geoms) THEN lines
  ELSE childLines(appendLines(lines, geoms[i + 1]), geoms, i + 1)

\* The points of a geometry, in the order of the walk.
RECURSIVE appendPoints(_, _)
RECURSIVE childPoints(_, _, _)
appendPoints(points, g) ==
  IF g.type = "Point" THEN (IF g.seq # << >> THEN Append(points, g.seq[1]) ELSE points)
  ELSE IF g.type \in {"MultiPoint", "GeometryCollection"} THEN childPoints(points, g.geoms, 0)
  ELSE points

childPoints(points, geoms, i) ==
  IF i >= Len(geoms) THEN points
  ELSE childPoints(appendPoints(points, geoms[i + 1]), geoms, i + 1)

\* The index of boxes: record i is box i of the list.
RECURSIVE loadBoxes(_, _, _)
loadBoxes(t, boxes, i) ==
  IF i >= Len(boxes) THEN t
  ELSE loadBoxes([Insert(t, boxes[i + 1], i) EXCEPT !.old = << >>], boxes, i + 1)

newIndexedLines(lines) ==
  [lines |-> lines,
   tree |-> loadBoxes(ZeroTree, [i \in 1..Len(lines) |-> lineBox(lines[i])], 0)]

newIndexedPoints(points) ==
  [points |-> points,
   tree |-> loadBoxes(ZeroTree, [i \in 1..Len(points) |-> xyBox(points[i])], 0)]

newCutSet(g) ==
  [lnIndex |-> newIndexedLines(appendLines(<< >>, g)),
   ptIndex |-> newIndexedPoints(appendPoints(<< >>, g))]

\* The callbacks of reNodeLineString always return nil.
ReturnsNil == [kind |-> "nil", at |-> 0]

\* A callback that drops the second point of the intersection.
appendInter_FirstOnly(xys, inter) ==
  IF inter.empty THEN xys ELSE Append(xys, inter.ptA)

appendInter(xys, inter) ==
  IF inter.empty THEN xys ELSE xys \o <<inter.ptA, inter.ptB>>

\* The first search of reNodeLineString: its callback, called with the
\* record of each entry found, in turn.
RECURSIVE lineCuts(_, _, _, _)
lineCuts(ln, lines, found, xys) ==
  IF found = << >> THEN xys
  ELSE lineCuts(ln, lines, Tail(found),
                appendInter(xys, intersectLine(ln, lines[Head(found).data + 1])))

\* A callback that adds every point the search finds.
appendOnLine_Untested(xys, ln, other) == Append(xys, other)

appendOnLine(xys, ln, other) ==
  IF intersectsXY(ln, other) THEN Append(xys, other) ELSE xys

\* The second search.
RECURSIVE pointCuts(_, _, _, _)
pointCuts(ln, points, found, xys) ==
  IF found = << >> THEN xys
  ELSE pointCuts(ln, points, Tail(found),
                 appendOnLine(xys, ln, points[Head(found).data + 1]))

\* A reversal that swaps the first and the last point only.
reverseXYs_EndsOnly(xys) ==
  [i \in 1..Len(xys) |-> IF i = 1 THEN xys[Len(xys)] ELSE IF i = Len(xys) THEN xys[1] ELSE xys[i]]

reverseXYs(xys) == [i \in 1..Len(xys) |-> xys[Len(xys) + 1 - i]]

\* The sorted order, whatever the direction of the edge.
matchDirection_Sorted(xys, a) == xys

\* Reverse order to match direction of edge.
matchDirection(xys, a) == IF xys[1] # a THEN reverseXYs(xys) ELSE xys

\* The cut locations sorted, with equal points left in.
cutLocations_Repeats(ln, cutSet) ==
  matchDirection(
    sortXYs(
      pointCuts(ln, cutSet.ptIndex.points,
                RangeSearch(cutSet.ptIndex.tree, lineBox(ln), ReturnsNil).calls,
                lineCuts(ln, cutSet.lnIndex.lines,
                         RangeSearch(cutSet.lnIndex.tree, lineBox(ln), ReturnsNil).calls,
                         <<ln.a, ln.b>>))),
    ln.a)

\* The cut locations of one line of the input, in the direction of the line.
cutLocations(ln, cutSet) ==
  matchDirection(
    sortAndUniquifyXYs(
      pointCuts(ln, cutSet.ptIndex.points,
                RangeSearch(cutSet.ptIndex.tree, lineBox(ln), ReturnsNil).calls,
                lineCuts(ln, cutSet.lnIndex.lines,
                         RangeSearch(cutSet.lnIndex.tree, lineBox(ln), ReturnsNil).calls,
                         <<ln.a, ln.b>>))),
    ln.a)

RECURSIVE coordsOf(_)
coordsOf(xys) ==
  IF xys = << >> THEN << >> ELSE <<Head(xys).X, Head(xys).Y>> \o coordsOf(Tail(xys))

\* Every line's first point is added, the end of the previous line too.
addCoords_DoublingUp(newCoords, xys) == newCoords \o coordsOf(xys)

\* Add coords related to this line segment.
addCoords(newCoords, xys) ==
  IF Len(newCoords) = 0 THEN coordsOf(xys) ELSE newCoords \o coordsOf(Tail(xys))

RECURSIVE reNodeLoop(_, _, _, _)
reNodeLoop(seq, cutSet, lnIdx, newCoords) ==
  IF lnIdx >= Len(seq) THEN newCoords
  ELSE IF ~getLine(seq, lnIdx).ok THEN reNodeLoop(seq, cutSet, lnIdx + 1, newCoords)
  ELSE reNodeLoop(seq, cutSet, lnIdx + 1,
                  addCoords(newCoords, cutLocations(getLine(seq, lnIdx).ln, cutSet)))

\* NewSequence(newCoords, DimXY)
NewSequence(coords) ==
  [i \in 1..(Len(coords) \div 2) |-> [X |-> coords[2 * i - 1], Y |-> coords[2 * i]]]

NewLineString(seq) == [type |-> "LineString", seq |-> seq]

reNodeLineString(ls, cutSet) ==
  NewLineString(NewSequence(reNodeLoop(ls.seq, cutSet, 0, << >>)))

\* The line strings of a multi line string, each of them renoded.
reNodeMultiLineString(mls, cutSet) ==
  [type |-> "MultiLineString",
   geoms |-> [i \in 1..Len(mls.geoms) |-> reNodeLineString(mls.geoms[i], cutSet)]]

RECURSIVE reNodeGeometry(_, _)

\* The geometries of a collection, each of them renoded.
reNodeGeometryCollection(gc, cutSet) ==
  [type |-> "GeometryCollection",
   geoms |-> [i \in 1..Len(gc.geoms) |-> reNodeGeometry(gc.geoms[i], cutSet)]]

\* A dispatch that treats the points of a point geometry as vertices to be
\* tidied: equal neighbours of a multi point are merged.
reNodeGeometry_PointsTidied(g, cutSet) ==
  IF g.type = "GeometryCollection" THEN reNodeGeometryCollection(g, cutSet)
  ELSE IF g.type = "LineString" THEN reNodeLineString(g, cutSet)
  ELSE IF g.type = "MultiLineString" THEN reNodeMultiLineString(g, cutSet)
  ELSE IF g.type = "MultiPoint" THEN [g EXCEPT !.geoms = uniquifyXYs(g.geoms)]
  ELSE g

\* The dispatch on the type of the geometry; the geometries of the model are
\* collections, line strings, multi line strings, points and multi points.
reNodeGeometry(g, cutSet) ==
  IF g.type = "GeometryCollection" THEN reNodeGeometryCollection(g, cutSet)
  ELSE IF g.type = "LineString" THEN reNodeLineString(g, cutSet)
  ELSE IF g.type = "MultiLineString" THEN reNodeMultiLineString(g, cutSet)
  ELSE g

(***************************************************************************)
(* The state machine: one caller makes one call at a time. tree is the     *)
(* RTree value; res is the call that has just returned ("none": no call is *)
(* being looked at); stored is the bag of records inserted and not yet     *)
(* removed by a Delete that returned true; nops counts the calls that     *)
(* changed the tree (Insert, and Delete when it found its record).         *)
(* For the renoder: source is the geometry the cut set is built from,      *)
(* target the line string to be renoded, cut the cut set, output the line  *)
(* string the last reNodeLineString returned, and phase the position of    *)
(* the caller ("start", "cut", "renoded", "again").                        *)
(***************************************************************************)
VARIABLES tree, stored, nops, res, source, target, cut, output, phase

\* The variables of the renoder calls.
renodeVars == <<source, target, cut, output, phase>>

vars == <<tree, stored, nops, res, source, target, cut, output, phase>>

\* Search boxes: one that overlaps the first of Boxes only, one that touches
\* both of Boxes along an edge.
Queries ==
  { [MinX |-> 0, MinY |-> 0, MaxX |-> 1, MaxY |-> 1],
    [MinX |-> 1, MinY |-> 0, MaxX |-> 3, MaxY |-> 1] }

BagAdd(bag, e) ==
  IF e \in DOMAIN bag THEN [bag EXCEPT ![e] = @ + 1]
  ELSE [x \in DOMAIN bag \cup {e} |-> IF x = e THEN 1 ELSE bag[x]]

BagRemove(bag, e) ==
  IF e \notin DOMAIN bag THEN bag
  ELSE IF bag[e] = 1 THEN [x \in DOMAIN bag \ {e} |-> bag[x]]
  ELSE [bag EXCEPT ![e] = @ - 1]

EmptyBag == [x \in {} |-> 0]

NoResult ==
  [op |-> "none", box |-> ZeroBox, data |-> 0, cb |-> [kind |-> "nil", at |-> 0],
   calls |-> << >>, err |-> "nil", ok |-> FALSE, out |-> ZeroBox]

Point(xy) == [type |-> "Point", seq |-> <<xy>>]

EmptyPoint == [type |-> "Point", seq |-> << >>]

MultiPoint(points) == [type |-> "MultiPoint", geoms |-> points]

GeometryCollection(geoms) == [type |-> "GeometryCollection", geoms |-> geoms]

\* No renoder call is being made.
NoRenode ==
  /\ source = GeometryCollection(<< >>)
  /\ target = NewLineString(<< >>)
  /\ cut = newCutSet(GeometryCollection(<< >>))
  /\ output = NewLineString(<< >>)
  /\ phase = "start"

Init ==
  /\ tree = ZeroTree
  /\ stored = EmptyBag
  /\ nops = 0
  /\ res = NoResult
  /\ NoRenode

Idle == res.op = "none" /\ tree.fail = "ok"

InsertStep(limit) ==
  /\ Idle
  /\ nops < limit
  /\ \E box \in Boxes, recordID \in RecordIDs :
       /\ tree' = [Insert(tree, box, recordID) EXCEPT !.old = << >>]
       /\ stored' = BagAdd(stored, [box |-> box, data |-> recordID])
       /\ res' = [NoResult EXCEPT !.op = "Insert", !.box = box, !.data = recordID]
  /\ nops' = nops + 1
  /\ UNCHANGED renodeVars

DoInsert == InsertStep(MaxOps)

\* A Delete that finds nothing changes nothing, and is not counted.
Deleted(d, box, recordID, limit) ==
  /\ d.ret => nops < limit
  /\ tree' = d.t
  /\ stored' = IF d.ret THEN BagRemove(stored, d.removed) ELSE stored
  /\ res' = [NoResult EXCEPT !.op = "Delete", !.box = box, !.data = recordID,
                             !.ok = d.ret, !.out = d.removed.box]
  /\ nops' = IF d.ret THEN nops + 1 ELSE nops
  /\ UNCHANGED renodeVars

DeleteStep(limit) ==
  /\ Idle
  /\ \E box \in Boxes \cup Queries, recordID \in RecordIDs :
       Deleted(Delete(tree, box, recordID), box, recordID, limit)

DoDelete == DeleteStep(MaxOps)

DoRangeSearch ==
  /\ Idle
  /\ \E box \in Queries, cb \in Callbacks :
       LET r == RangeSearch(tree, box, cb)
       IN res' = [NoResult EXCEPT !.op = "RangeSearch", !.box = box, !.cb = cb,
                                  !.calls = r.calls, !.err = r.err]
  /\ UNCHANGED <<tree, stored, nops>>
  /\ UNCHANGED renodeVars

DoPrioritySearch ==
  /\ Idle
  /\ \E box \in Queries, cb \in Callbacks :
       LET r == PrioritySearch(tree, box, cb)
       IN res' = [NoResult EXCEPT !.op = "PrioritySearch", !.box = box, !.cb = cb,
                                  !.calls = r.calls, !.err = r.err]
  /\ UNCHANGED <<tree, stored, nops>>
  /\ UNCHANGED renodeVars

DoExtent ==
  /\ Idle
  /\ LET x == Extent(tree)
     IN res' = [NoResult EXCEPT !.op = "Extent", !.ok = x.ok, !.out = x.box]
  /\ UNCHANGED <<tree, stored, nops>>
  /\ UNCHANGED renodeVars

\* The caller takes the result and is ready for its next call.
Return ==
  /\ res.op # "none"
  /\ tree.fail = "ok"
  /\ res.err \in {"nil", "err"}
  /\ res' = NoResult
  /\ UNCHANGED <<tree, stored, nops>>
  /\ UNCHANGED renodeVars

Next ==
  \/ DoInsert
  \/ DoDelete
  \/ DoRangeSearch
  \/ DoPrioritySearch
  \/ DoExtent
  \/ Return

Spec == Init /\ [][Next]_vars

\* The calls that change the tree, and Extent, in longer sequences.
TreeInsert == InsertStep(MaxTreeOps)

TreeDelete == DeleteStep(MaxTreeOps)

NextTree ==
  \/ TreeInsert
  \/ TreeDelete
  \/ DoExtent
  \/ Return

SpecTree == Init /\ [][NextTree]_vars

\* Still longer sequences of Insert and Delete, of records with one ID.
MaxDeepOps == 10

DeepInsert ==
  /\ Idle
  /\ nops < MaxDeepOps
  /\ \E box \in Boxes :
       /\ tree' = [Insert(tree, box, 0) EXCEPT !.old = << >>]
       /\ stored' = BagAdd(stored, [box |-> box, data |-> 0])
       /\ res' = [NoResult EXCEPT !.op = "Insert", !.box = box, !.data = 0]
  /\ nops' = nops + 1
  /\ UNCHANGED renodeVars

DeepDelete ==
  /\ Idle
  /\ \E box \in Boxes : Deleted(Delete(tree, box, 0), box, 0, MaxDeepOps)

NextDeep ==
  \/ DeepInsert
  \/ DeepDelete
  \/ DoExtent
  \/ Return

SpecDeep == Init /\ [][NextDeep]_vars

\* The renoder's inputs: line strings of 2 to MaxTargetLen points of a 3 by 3
\* grid, and cut sets built from a line string and up to MaxCutPoints points.
MaxTargetLen == 3

MaxCutPoints == 2

GridCoords == {0, 30, 60}

SeqsOf(S, lo, hi) == UNION {[1..n -> S] : n \in lo..hi}

Targets ==
  {NewLineString(seq) : seq \in SeqsOf([X : GridCoords, Y : GridCoords], 2, MaxTargetLen)}

\* A vertical line, a diagonal, a line of slope 1/2, and a line string with
\* a repeated point, a horizontal and a vertical line.
CutLineStrings ==
  { <<[X |-> 30, Y |-> 0], [X |-> 30, Y |-> 60]>>,
    <<[X |-> 0, Y |-> 60], [X |-> 60, Y |-> 0]>>,
    <<[X |-> 0, Y |-> 30], [X |-> 60, Y |-> 60]>>,
    <<[X |-> 0, Y |-> 0], [X |-> 0, Y |-> 0], [X |-> 30, Y |-> 0], [X |-> 30, Y |-> 30]>> }

CutPoints ==
  {EmptyPoint, Point([X |-> 30, Y |-> 0]), Point([X |-> 30, Y |-> 30])}

CutSources ==
  {GeometryCollection(<<NewLineString(seq), MultiPoint(points)>>) :
     seq \in CutLineStrings, points \in SeqsOf(CutPoints, 0, MaxCutPoints)}

InitRenode ==
  /\ tree = ZeroTree
  /\ stored = EmptyBag
  /\ nops = 0
  /\ res = NoResult
  /\ source \in CutSources
  /\ target \in Targets
  /\ cut = newCutSet(GeometryCollection(<< >>))
  /\ output = NewLineString(<< >>)
  /\ phase = "start"

DoNewCutSet ==
  /\ phase = "start"
  /\ cut' = newCutSet(source)
  /\ phase' = "cut"
  /\ UNCHANGED <<source, target, output>>
  /\ UNCHANGED <<tree, stored, nops, res>>

DoReNode ==
  /\ phase = "cut"
  /\ output' = reNodeLineString(target, cut)
  /\ phase' = "renoded"
  /\ UNCHANGED <<source, target, cut>>
  /\ UNCHANGED <<tree, stored, nops, res>>

\* The output is renoded with the same cut set.
DoReNodeAgain ==
  /\ phase = "renoded"
  /\ output' = reNodeLineString(output, cut)
  /\ phase' = "again"
  /\ UNCHANGED <<source, target, cut>>
  /\ UNCHANGED <<tree, stored, nops, res>>

NextRenode ==
  \/ DoNewCutSet
  \/ DoReNode
  \/ DoReNodeAgain

SpecRenode == InitRenode /\ [][NextRenode]_vars

(***************************************************************************)
(* Renoding geometries of every type of the model: the target is a point,  *)
(* a multi point, a line string, a multi line string or a collection of    *)
(* them, and reNodeGeometry is applied to it.                              *)
(***************************************************************************)
MaxMultiPoints == 2

GeometryPoints ==
  {EmptyPoint} \cup {Point([X |-> x, Y |-> 30]) : x \in GridCoords}

GeometryMultiPoints ==
  {MultiPoint(points) : points \in SeqsOf(GeometryPoints, 0, MaxMultiPoints)}

GeometryLineStrings ==
  {NewLineString(<<[X |-> 0, Y |-> 30], [X |-> 60, Y |-> 30]>>),
   NewLineString(<<[X |-> 0, Y |-> 0], [X |-> 0, Y |-> 0], [X |-> 60, Y |-> 60]>>)}

GeometryTargets ==
  GeometryPoints \cup GeometryMultiPoints \cup GeometryLineStrings
    \cup {[type |-> "MultiLineString", geoms |-> <<ls, ls>>] : ls \in GeometryLineStrings}
    \cup {GeometryCollection(<<p, ls>>) : p \in GeometryPoints, ls \in GeometryLineStrings}

InitGeometry ==
  /\ tree = ZeroTree
  /\ stored = EmptyBag
  /\ nops = 0
  /\ res = NoResult
  /\ source \in CutSources
  /\ target \in GeometryTargets
  /\ cut = newCutSet(GeometryCollection(<< >>))
  /\ output = GeometryCollection(<< >>)
  /\ phase = "start"

DoReNodeGeometry ==
  /\ phase = "cut"
  /\ output' = reNodeGeometry(target, cut)
  /\ phase' = "renoded"
  /\ UNCHANGED <<source, target, cut>>
  /\ UNCHANGED <<tree, stored, nops, res>>

NextGeometry ==
  \/ DoNewCutSet
  \/ DoReNodeGeometry

SpecGeometry == InitGeometry /\ [][NextGeometry]_vars

(***************************************************************************)
(* splitNode on its own: the tree holds a node 0 that Insert has just      *)
(* filled with maxChildren + 1 entries, either a leaf of five records or   *)
(* an interior node over five leaves (nodes 1 to 5, two records each), and *)
(* splitNode is applied to node 0.                                         *)
(***************************************************************************)
SplitBoxes ==
  Boxes \cup {[MinX |-> 0, MinY |-> 2, MaxX |-> 1, MaxY |-> 3]}

\* A leaf of five records: record k has the ID k.
OverflowingLeaf(boxes) ==
  [ZeroTree EXCEPT !.nodes =
     << [ZeroNode(TRUE) EXCEPT !.entries = [k \in 1..NumSlots |->
                                              [box |-> boxes[k], data |-> k - 1]],
                               !.numEntries = NumSlots] >>]

\* An interior root over five leaves: leaf k holds two records of box k.
OverflowingInterior(boxes) ==
  [ZeroTree EXCEPT !.nodes =
     << [ZeroNode(FALSE) EXCEPT !.entries = [k \in 1..NumSlots |->
                                               [box |-> boxes[k], data |-> k]],
                                !.numEntries = NumSlots,
                                !.parent = -1] >>
     \o [k \in 1..NumSlots |->
           [ZeroNode(TRUE) EXCEPT !.entries[1] = [box |-> boxes[k], data |-> 0],
                                  !.entries[2] = [box |-> boxes[k], data |-> 1],
                                  !.numEntries = 2]]]

OverflowingTrees ==
  {OverflowingLeaf(boxes) : boxes \in [1..NumSlots -> SplitBoxes]}
    \cup {OverflowingInterior(boxes) : boxes \in [1..NumSlots -> SplitBoxes]}

InitSplit ==
  /\ tree \in OverflowingTrees
  /\ stored = EmptyBag
  /\ nops = 0
  /\ res = NoResult
  /\ NoRenode

\* res.data is the index splitNode returns.
DoSplitNode ==
  /\ Idle
  /\ nops = 0
  /\ tree' = [splitNode(tree, 0) EXCEPT !.old = << >>]
  /\ res' = [NoResult EXCEPT !.op = "splitNode", !.data = Len(tree.nodes)]
  /\ nops' = 1
  /\ UNCHANGED stored
  /\ UNCHANGED renodeVars

SpecSplit == InitSplit /\ [][DoSplitNode]_vars

(***************************************************************************)
(* The scenario of five records in a row: record k is the unit box at      *)
(* X = ScenarioXs[k + 1]; the records are inserted in the order of their  *)
(* IDs and the records of ScenarioDeletes are then deleted in that order.  *)
(* nops is the number of calls of the script made so far. Between the      *)
(* calls of the script the caller may search the tree.                     *)
(***************************************************************************)
ScenarioXs == <<0, 2, 4, 6, 8>>

ScenarioDeletes == <<0, 1, 2>>

ScenarioBox(recordID) ==
  [MinX |-> ScenarioXs[recordID + 1], MinY |-> 0,
   MaxX |-> ScenarioXs[recordID + 1] + 1, MaxY |-> 1]

\* The box of each record, and the box of all of them.
ScenarioQueries ==
  {ScenarioBox(k - 1) : k \in 1..Len(ScenarioXs)}
    \cup {combine(ScenarioBox(0), ScenarioBox(Len(ScenarioXs) - 1))}

ScenarioInsert ==
  /\ Idle
  /\ nops < Len(ScenarioXs)
  /\ tree' = [Insert(tree, ScenarioBox(nops), nops) EXCEPT !.old = << >>]
  /\ stored' = BagAdd(stored, [box |-> ScenarioBox(nops), data |-> nops])
  /\ res' = [NoResult EXCEPT !.op = "Insert", !.box = ScenarioBox(nops), !.data = nops]
  /\ nops' = nops + 1
  /\ UNCHANGED renodeVars

\* A Delete that finds nothing is not counted: the script does not go on.
ScenarioDelete ==
  /\ Idle
  /\ nops >= Len(ScenarioXs)
  /\ nops < Len(ScenarioXs) + Len(ScenarioDeletes)
  /\ res = NoResult
  /\ Deleted(Delete(tree, ScenarioBox(ScenarioDeletes[nops - Len(ScenarioXs) + 1]),
                    ScenarioDeletes[nops - Len(ScenarioXs) + 1]),
             ScenarioBox(ScenarioDeletes[nops - Len(ScenarioXs) + 1]),
             ScenarioDeletes[nops - Len(ScenarioXs) + 1],
             Len(ScenarioXs) + Len(ScenarioDeletes))

ScenarioSearch ==
  /\ Idle
  /\ \E box \in ScenarioQueries, cb \in Callbacks :
       LET r == RangeSearch(tree, box, cb)
       IN res' = [NoResult EXCEPT !.op = "RangeSearch", !.box = box, !.cb = cb,
                                  !.calls = r.calls, !.err = r.err]
  /\ UNCHANGED <<tree, stored, nops>>
  /\ UNCHANGED renodeVars

NextScenario ==
  \/ ScenarioInsert
  \/ ScenarioDelete
  \/ ScenarioSearch
  \/ Return

SpecScenario == Init /\ [][NextScenario]_vars

(***************************************************************************)
(* What the properties are stated with.                                    *)
(***************************************************************************)
RECURSIVE SumOver(_, _)
SumOver(bag, S) ==
  IF S = {} THEN 0
  ELSE LET x == CHOOSE y \in S : TRUE IN bag[x] + SumOver(bag, S \ {x})

\* How many copies of a record with this ID, with a box overlapping q, are stored.
StoredOverlapping(recordID, q) ==
  SumOver(stored, {e \in DOMAIN stored : e.data = recordID /\ overlap(e.box, q)})

StoredWithID(recordID) ==
  SumOver(stored, {e \in DOMAIN stored : e.data = recordID})

StoredCount == SumOver(stored, DOMAIN stored)

\* How many times the callback was invoked with this record ID.
Invocations(calls, recordID) ==
  Cardinality({k \in 1..Len(calls) : calls[k].data = recordID})

ReportedIDs(calls) == {calls[k].data : k \in 1..Len(calls)}

SeqBag(seq) ==
  [e \in {seq[k] : k \in 1..Len(seq)} |-> Cardinality({k \in 1..Len(seq) : seq[k] = e})]

\* The leaf entries reachable from the root, each once per path to it, in
\* depth-first order.
RECURSIVE leafEntriesFrom(_, _, _, _)
leafEntriesFrom(t, nodeIdx, i, depth) ==
  IF ~InRange(t, nodeIdx) THEN << >>
  ELSE LET n == Node(t, nodeIdx)
       IN IF i >= n.numEntries THEN << >>
          ELSE (IF n.isLeaf THEN <<n.entries[i + 1]>>
                ELSE IF depth = 0 THEN << >>
                ELSE leafEntriesFrom(t, n.entries[i + 1].data, 0, depth - 1))
               \o leafEntriesFrom(t, nodeIdx, i + 1, depth)

LeafEntries(t) ==
  IF ~hasRoot(t) THEN << >> ELSE leafEntriesFrom(t, t.root, 0, Len(t.nodes))

LeafBag(t) == SeqBag(LeafEntries(t))

\* The depths at which leaf nodes are reachable from nodeIdx, itself at level.
RECURSIVE leafLevelsFrom(_, _, _, _)
leafLevelsFrom(t, nodeIdx, level, depth) ==
  IF ~InRange(t, nodeIdx) THEN {}
  ELSE IF Node(t, nodeIdx).isLeaf THEN {level}
  ELSE IF depth = 0 THEN {}
  ELSE UNION {leafLevelsFrom(t, Node(t, nodeIdx).entries[k].data, level + 1, depth - 1) :
                k \in 1..Node(t, nodeIdx).numEntries}

LeafLevels(t) == IF ~hasRoot(t) THEN {} ELSE leafLevelsFrom(t, t.root, 0, Len(t.nodes))

RECURSIVE CombineAll(_)
CombineAll(S) ==
  LET b == CHOOSE x \in S : TRUE
  IN IF S = {b} THEN b ELSE combine(b, CombineAll(S \ {b}))

Height(t) == nodeDepth(t, t.root).val - 1

NondecreasingDistance(calls, q) ==
  \A k \in 2..Len(calls) :
    squaredEuclideanDistance(calls[k].box, q)
      >= squaredEuclideanDistance(calls[k - 1].box, q)

(***************************************************************************)
(* The properties.                                                         *)
(***************************************************************************)

\* C1: RangeSearch(q) with a callback that always returns nil invokes the
\* callback exactly once for each stored record whose box overlaps q, and for
\* no other record.
C1_RangeSearchExact ==
  (res.op = "RangeSearch" /\ res.cb.kind = "nil") =>
    /\ res.err = "nil"
    /\ \A recordID \in RecordIDs \cup ReportedIDs(res.calls) :
         Invocations(res.calls, recordID) = StoredOverlapping(recordID, res.box)

\* C2: once the callback has returned Stop, RangeSearch does not invoke it
\* again, and returns nil.
C2_RangeSearchStop ==
  (res.op = "RangeSearch" /\ res.cb.kind = "Stop" /\ Len(res.calls) >= res.cb.at) =>
    /\ Len(res.calls) = res.cb.at
    /\ res.err = "nil"

\* C3: once the callback has returned an error that is not Stop, RangeSearch
\* does not invoke it again, and returns that error.
C3_RangeSearchError ==
  (res.op = "RangeSearch" /\ res.cb.kind = "err" /\ Len(res.calls) >= res.cb.at) =>
    /\ Len(res.calls) = res.cb.at
    /\ res.err = "err"

\* C3 witness: an error returned in a tree of height 1 or more, with more
\* overlapping records stored than the callback had seen.
C3_Witness ==
  /\ res.op = "RangeSearch" /\ res.cb.kind = "err"
  /\ Len(res.calls) = res.cb.at /\ res.err = "err"
  /\ Height(tree) >= 1
  /\ \E recordID \in RecordIDs :
       StoredOverlapping(recordID, res.box) > Invocations(res.calls, recordID)

\* C4: PrioritySearch(q) with a callback that always returns nil invokes the
\* callback exactly once per stored record, in non-decreasing order of the
\* squared distance of the record's box from q.
C4_PrioritySearchAllInOrder ==
  (res.op = "PrioritySearch" /\ res.cb.kind = "nil") =>
    /\ res.err = "nil"
    /\ \A recordID \in RecordIDs \cup ReportedIDs(res.calls) :
         Invocations(res.calls, recordID) = StoredWithID(recordID)
    /\ NondecreasingDistance(res.calls, res.box)

\* C5: once the callback has returned Stop or an error, PrioritySearch does
\* not invoke it again; it returns nil after Stop and the error otherwise.
C5_PrioritySearchStopError ==
  (res.op = "PrioritySearch" /\ res.cb.kind # "nil" /\ Len(res.calls) >= res.cb.at) =>
    /\ Len(res.calls) = res.cb.at
    /\ res.err = (IF res.cb.kind = "Stop" THEN "nil" ELSE res.cb.kind)

\* C5 witness: a Stop that cut short the search of a tree of height 1 or
\* more, with stored records left unreported.
C5_Witness ==
  /\ res.op = "PrioritySearch" /\ res.cb.kind = "Stop"
  /\ Len(res.calls) = res.cb.at /\ res.err = "nil"
  /\ Height(tree) >= 1
  /\ StoredCount > Len(res.calls)

\* C6: a Delete that returns true removes exactly one leaf entry, one that
\* holds recordID and whose box overlaps the search box; every other leaf
\* entry is still in the tree.
C6_DeleteRemovesOne ==
  [][(res.op = "none" /\ res'.op = "Delete" /\ res'.ok /\ tree'.fail = "ok") =>
       \E e \in DOMAIN LeafBag(tree) :
         /\ e.data = res'.data
         /\ overlap(e.box, res'.box)
         /\ LeafBag(tree') = BagRemove(LeafBag(tree), e)]_vars

\* C7: Delete returns false exactly when no stored record holds recordID with
\* a box overlapping the search box, and then leaves the tree as it was.
C7_DeleteFalse ==
  [][(res.op = "none" /\ res'.op = "Delete" /\ tree'.fail = "ok") =>
       /\ ~res'.ok <=> (StoredOverlapping(res'.data, res'.box) = 0)
       /\ ~res'.ok => tree' = tree]_vars

\* C8: the leaf entries reachable from the root are the records inserted and
\* not removed by a Delete that returned true, each as often as it is stored.
C8_RecordsPreserved ==
  tree.fail = "ok" => LeafBag(tree) = stored

\* C9: Extent returns the combine of the boxes of the stored records, and
\* reports "empty" exactly when no record is stored.
C9_Extent ==
  res.op = "Extent" =>
    /\ res.ok <=> (DOMAIN stored # {})
    /\ res.ok => res.out = CombineAll({e.box : e \in DOMAIN stored})

\* C10: all leaf nodes reachable from the root are at the same depth.
C10_LeavesAtOneDepth ==
  tree.fail = "ok" => Cardinality(LeafLevels(tree)) <= 1

(***************************************************************************)
(* The structure of the tree, as checkInvariants walks it.                 *)
(***************************************************************************)
\* The nodes reachable from nodeIdx through at most depth interior levels.
RECURSIVE reachableFrom(_, _, _)
reachableFrom(t, nodeIdx, depth) ==
  IF ~InRange(t, nodeIdx) THEN {}
  ELSE IF Node(t, nodeIdx).isLeaf \/ depth = 0 THEN {nodeIdx}
  ELSE {nodeIdx} \cup
       UNION {reachableFrom(t, Node(t, nodeIdx).entries[k].data, depth - 1) :
                k \in 1..Node(t, nodeIdx).numEntries}

Reachable(t) == IF ~hasRoot(t) THEN {} ELSE reachableFrom(t, t.root, Len(t.nodes))

\* The interior entries reachable from the root: node n, slot k (from 1).
InteriorEntries(t) ==
  {ne \in Reachable(t) \X (1..NumSlots) :
     ~Node(t, ne[1]).isLeaf /\ ne[2] <= Node(t, ne[1]).numEntries}

EntryAt(t, ne) == Node(t, ne[1]).entries[ne[2]]

\* C11: the box of every interior entry reachable from the root is the
\* combine of the boxes of the entries of the child node it points to.
C11_EntryBoxesExact ==
  tree.fail = "ok" =>
    \A ne \in InteriorEntries(tree) :
      /\ InRange(tree, EntryAt(tree, ne).data)
      /\ EntryAt(tree, ne).box = calculateBound(Node(tree, EntryAt(tree, ne).data))

\* C12: every node reachable from the root holds at most maxChildren
\* entries, and every reachable node but the root at least minChildren.
C12_EntryCounts ==
  tree.fail = "ok" =>
    \A n \in Reachable(tree) :
      /\ Node(tree, n).numEntries <= maxChildren
      /\ n # tree.root => Node(tree, n).numEntries >= minChildren

\* C13: in every node reachable from the root, the slots from numEntries up
\* to the capacity hold the zero entry.
C13_ZeroSlots ==
  tree.fail = "ok" =>
    \A n \in Reachable(tree) :
      \A k \in 1..NumSlots :
        k > Node(tree, n).numEntries => Node(tree, n).entries[k] = ZeroEntry

\* A Delete has removed an entry from a node of a tree that has been split.
C13_Witness ==
  /\ tree.fail = "ok"
  /\ res.op = "Delete"
  /\ res.ok
  /\ Len(tree.nodes) >= 3
  /\ \E n \in Reachable(tree) :
       Node(tree, n).numEntries < maxChildren /\ ~Node(tree, n).isLeaf

BackLinks(t, n) ==
  {k \in 1..Node(t, Node(t, n).parent).numEntries :
     Node(t, Node(t, n).parent).entries[k].data = n}

\* C14: the parent field of every reachable node but the root names a
\* reachable interior node with exactly one entry for it, and the child of
\* every reachable interior entry has the holder of the entry as its parent.
C14_ParentLinks ==
  tree.fail = "ok" =>
    /\ \A n \in Reachable(tree) \ {tree.root} :
         /\ Node(tree, n).parent \in Reachable(tree)
         /\ ~Node(tree, Node(tree, n).parent).isLeaf
         /\ Cardinality(BackLinks(tree, n)) = 1
    /\ \A ne \in InteriorEntries(tree) :
         /\ InRange(tree, EntryAt(tree, ne).data)
         /\ Node(tree, EntryAt(tree, ne).data).parent = ne[1]

\* C15: after every Insert and every Delete on a tree that has a root, the
\* parent field of the root node is -1.
C15_RootParentNil ==
  (tree.fail = "ok" /\ hasRoot(tree) /\ nops > 0) =>
    Node(tree, tree.root).parent = -1

\* C16: no call fails: after every sequence of Insert and Delete calls the
\* running call has not indexed the node array or an entry array out of
\* range, has not run without end, and a search has returned nil or the
\* error of its callback.
C16_NoFailure ==
  /\ tree.fail = "ok"
  /\ res.err \in {"nil", "err"}

(***************************************************************************)
(* The renoder's output, line by line of its input.                        *)
(***************************************************************************)
LineIdxs(seq) == {i \in 0..(Len(seq) - 2) : getLine(seq, i).ok}

LineAt(seq, i) == getLine(seq, i).ln

\* How many vertices the lines before line i have put into the output, the
\* last of them (the first of line i's own) not counted.
RECURSIVE verticesBefore(_, _, _)
verticesBefore(seq, cutSet, i) ==
  IF i <= 0 THEN 0
  ELSE verticesBefore(seq, cutSet, i - 1)
         + (IF getLine(seq, i - 1).ok
            THEN Len(cutLocations(LineAt(seq, i - 1), cutSet)) - 1 ELSE 0)

\* The vertices of the output that replace line i of the target.
EdgeOutput(i) ==
  SubSeq(output.seq, verticesBefore(target.seq, cut, i) + 1,
         verticesBefore(target.seq, cut, i + 1) + 1)

Vertices(seq) == {seq[k] : k \in 1..Len(seq)}

CutLines == Vertices(cut.lnIndex.lines)

CutXYs == Vertices(cut.ptIndex.points)

C19_DirectionKept ==
  phase = "renoded" =>
    \A i \in LineIdxs(target.seq) :
      /\ Len(EdgeOutput(i)) >= 2
      /\ EdgeOutput(i)[1] = LineAt(target.seq, i).a
      /\ EdgeOutput(i)[Len(EdgeOutput(i))] = LineAt(target.seq, i).b

\* A line that descends in X and a vertical line that descends in Y have
\* both been cut.
C19_Witness ==
  /\ phase = "renoded"
  /\ \E i \in LineIdxs(target.seq) :
       /\ LineAt(target.seq, i).a.X > LineAt(target.seq, i).b.X
       /\ Len(EdgeOutput(i)) >= 3
  /\ \E i \in LineIdxs(target.seq) :
       /\ LineAt(target.seq, i).a.X = LineAt(target.seq, i).b.X
       /\ LineAt(target.seq, i).a.Y > LineAt(target.seq, i).b.Y
       /\ Len(EdgeOutput(i)) >= 3

C21_NoRepeatedVertex ==
  phase \in {"renoded", "again"} =>
    \A k \in 1..(Len(output.seq) - 1) : output.seq[k] # output.seq[k + 1]

\* The target repeats a point, a line of the cut set meets a line of the
\* target at one of its ends, and a point of the cut set lies where a line
\* of the cut set crosses a line of the target.
C21_Witness ==
  /\ phase = "renoded"
  /\ \E k \in 1..(Len(target.seq) - 1) : target.seq[k] = target.seq[k + 1]
  /\ \E i \in LineIdxs(target.seq), other \in CutLines :
       /\ ~intersectLine(LineAt(target.seq, i), other).empty
       /\ intersectLine(LineAt(target.seq, i), other).ptA = LineAt(target.seq, i).b
  /\ \E i \in LineIdxs(target.seq), other \in CutLines, xy \in CutXYs :
       /\ ~intersectLine(LineAt(target.seq, i), other).empty
       /\ intersectLine(LineAt(target.seq, i), other).ptA = xy
       /\ xy \notin {LineAt(target.seq, i).a, LineAt(target.seq, i).b}

\* The positions in the output of the first and the last vertex of the
\* vertices that replace each line of the target.
EndPositions ==
  {verticesBefore(target.seq, cut, i) + 1 : i \in LineIdxs(target.seq)}
    \cup {verticesBefore(target.seq, cut, i + 1) + 1 : i \in LineIdxs(target.seq)}

RECURSIVE pick(_, _, _)
pick(seq, positions, k) ==
  IF k > Len(seq) THEN << >>
  ELSE (IF k \in positions THEN <<seq[k]>> ELSE << >>) \o pick(seq, positions, k + 1)

\* The output without the vertices inserted from the cut set.
OriginalVertices == pick(output.seq, EndPositions, 1)

Monotone(xys) ==
  \/ \A k \in 1..(Len(xys) - 1) : XYLess(xys[k], xys[k + 1])
  \/ \A k \in 1..(Len(xys) - 1) : XYLess(xys[k + 1], xys[k])

Refined ==
  \A i \in LineIdxs(target.seq) :
    /\ \A k \in 1..Len(EdgeOutput(i)) : intersectsXY(LineAt(target.seq, i), EdgeOutput(i)[k])
    /\ Monotone(EdgeOutput(i))

\* C30: the output without the vertices inserted from the cut set is the
\* target with its consecutive equal points collapsed, and the vertices that
\* replace a line of the target lie on the line, in strictly monotone order.
C30_OnlyRefines ==
  phase = "renoded" =>
    /\ OriginalVertices = uniquifyXYs(target.seq)
    /\ Refined

\* C30 amended: as C30 for a target with a line of non-zero length; the
\* output for a target whose points are all equal has no vertex.
C30_RefinesLines ==
  phase = "renoded" =>
    /\ LineIdxs(target.seq) # {} => OriginalVertices = uniquifyXYs(target.seq)
    /\ LineIdxs(target.seq) = {} => output.seq = << >>
    /\ Len(output.seq) = verticesBefore(target.seq, cut, Len(target.seq) - 1)
                           + (IF LineIdxs(target.seq) = {} THEN 0 ELSE 1)
    /\ Refined

\* A target with a repeated point and two lines, both cut inside.
C30_Witness ==
  /\ phase = "renoded"
  /\ Len(uniquifyXYs(target.seq)) = 2
  /\ Len(target.seq) = 3
  /\ Len(output.seq) >= 4

\* C22: renoding a Point or a MultiPoint returns the input geometry unchanged,
\* whatever the cut set is.
C22_PointsUnchanged ==
  (phase = "renoded" /\ target.type \in {"Point", "MultiPoint"}) => output = target

\* A multi point holding the same point twice, on a line of the cut set, has
\* been renoded.
C22_Witness ==
  /\ phase = "renoded"
  /\ target.type = "MultiPoint"
  /\ Len(target.geoms) = 2
  /\ target.geoms[1] = target.geoms[2]
  /\ target.geoms[1] = Point([X |-> 30, Y |-> 30])
  /\ Len(cut.lnIndex.lines) >= 1

\* The step in which splitNode splits node 0.
SplitStep == res.op = "none" /\ res'.op = "splitNode"

\* The entries a node holds.
EntriesOf(n) == {n.entries[k] : k \in 1..n.numEntries}

\* The entries of n whose bit in split is b.
GroupOf(n, split, b) ==
  {n.entries[i + 1] : i \in {j \in 0..(n.numEntries - 1) : Bit(split, j) = b}}

\* The masks that leave at least minChildren entries in each group.
AdmissibleSplits(n) ==
  {split \in 1..((2 ^ maxChildren) - 1) :
     /\ OnesCount(split) >= minChildren
     /\ n.numEntries - OnesCount(split) >= minChildren}

\* area(B0) + area(B1), each the combine of all the boxes of its group.
GroupAreas(n, split) ==
  area(CombineAll({e.box : e \in GroupOf(n, split, 0)}))
    + area(CombineAll({e.box : e \in GroupOf(n, split, 1)}))

\* The lowest of the masks whose sum of group areas is the least.
LeastAreaSplit(n) ==
  CHOOSE split \in AdmissibleSplits(n) :
    \A other \in AdmissibleSplits(n) :
      \/ GroupAreas(n, split) < GroupAreas(n, other)
      \/ GroupAreas(n, split) = GroupAreas(n, other) /\ split <= other

\* C23: splitNode on a node of maxChildren + 1 entries divides the entries by
\* the lowest mask, of those leaving minChildren entries on each side, that
\* minimises area(B0) + area(B1), B0 and B1 being the combines of all the
\* boxes of the bit-0 and of the bit-1 group.
C23_SplitMinimisesArea ==
  [][SplitStep =>
       /\ EntriesOf(Node(tree', 0)) = GroupOf(Node(tree, 0), LeastAreaSplit(Node(tree, 0)), 0)
       /\ EntriesOf(Node(tree', res'.data)) =
            GroupOf(Node(tree, 0), LeastAreaSplit(Node(tree, 0)), 1)]_vars

InsertCall == res.op = "none" /\ res'.op = "Insert"

\* The root is an interior node whose children are leaves.
RootOverLeaves(t) ==
  /\ t.fail = "ok"
  /\ hasRoot(t)
  /\ InRange(t, t.root)
  /\ ~Node(t, t.root).isLeaf
  /\ Node(t, t.root).numEntries >= 1
  /\ \A k \in 1..Node(t, t.root).numEntries :
       /\ InRange(t, Node(t, t.root).entries[k].data)
       /\ Node(t, Node(t, t.root).entries[k].data).isLeaf

\* Entry i of n is to be preferred to entry j for the new box: less
\* enlargement of its box, then less area of its box, then the lower index.
Preferred(n, box, i, j) ==
  LET bi == n.entries[i + 1].box
      bj == n.entries[j + 1].box
  IN \/ enlargement(bi, box) < enlargement(bj, box)
     \/ /\ enlargement(bi, box) = enlargement(bj, box)
        /\ area(bi) < area(bj)
     \/ /\ enlargement(bi, box) = enlargement(bj, box)
        /\ area(bi) = area(bj)
        /\ i <= j

LeastEnlargementEntry(n, box) ==
  CHOOSE i \in 0..(n.numEntries - 1) :
    \A j \in 0..(n.numEntries - 1) : Preferred(n, box, i, j)

\* The leaf under the root whose entry needs the least enlargement.
LeastEnlargementLeaf(t, box) ==
  Node(t, t.root).entries[LeastEnlargementEntry(Node(t, t.root), box) + 1].data

\* C25: the descent of Insert picks the entry whose box needs the least
\* enlargement to include the new box, area(combine(e.box, new)) - area(e.box),
\* then the entry of smaller area, then the entry of lower index. Observed on
\* a root over leaves: when the leaf so chosen has room, the record becomes
\* its last entry.
C25_LeastEnlargement ==
  [][(InsertCall /\ RootOverLeaves(tree)
        /\ Node(tree, LeastEnlargementLeaf(tree, res'.box)).numEntries < maxChildren) =>
       /\ tree'.fail = "ok"
       /\ Node(tree', LeastEnlargementLeaf(tree, res'.box)).numEntries =
            Node(tree, LeastEnlargementLeaf(tree, res'.box)).numEntries + 1
       /\ Node(tree', LeastEnlargementLeaf(tree, res'.box)).entries[
              Node(tree', LeastEnlargementLeaf(tree, res'.box)).numEntries] =
            [box |-> res'.box, data |-> res'.data]]_vars

\* The entries of the root point to the nodes of S.
RootPointsTo(t, S) ==
  /\ InRange(t, t.root)
  /\ Node(t, t.root).numEntries = 2
  /\ {Node(t, t.root).entries[1].data, Node(t, t.root).entries[2].data} = S

\* C26: an Insert into a tree that has a root leaves the root and the height
\* as they are unless the root itself was full and has been split; a new root
\* is a node appended by the call, and its two entries point to the old root
\* and to another node appended by the call, the sibling of the old root.
C26_NewRootOnlyOnRootSplit ==
  [][(InsertCall /\ tree.fail = "ok" /\ hasRoot(tree)) =>
       /\ tree'.fail = "ok"
       /\ Node(tree, tree.root).numEntries < maxChildren =>
            /\ tree'.root = tree.root
            /\ Height(tree') = Height(tree)
       /\ tree'.root # tree.root =>
            /\ tree'.root >= Len(tree.nodes)
            /\ \E sibling \in Len(tree.nodes)..(Len(tree'.nodes) - 1) :
                 /\ sibling # tree'.root
                 /\ Node(tree', sibling).isLeaf = Node(tree, tree.root).isLeaf
                 /\ RootPointsTo(tree', {tree.root, sibling})]_vars

\* C27: when Delete has returned, a root that is an interior node holds at
\* least two entries: one step of shortening the tree was enough.
C27_RootNotSingle ==
  (res.op = "Delete" /\ tree.fail = "ok" /\ hasRoot(tree) /\ ~Node(tree, tree.root).isLeaf)
    => Node(tree, tree.root).numEntries >= 2

\* Delete has shortened a tree of height two: the root is an interior node,
\* once the only child of the root before it, that ShortenTree gave the
\* parent 0.
C27_Witness ==
  /\ res.op = "Delete"
  /\ res.ok
  /\ tree.fail = "ok"
  /\ ~Node(tree, tree.root).isLeaf
  /\ Node(tree, tree.root).parent = 0
  /\ Node(tree, tree.root).numEntries >= 2

\* C28: in the scenario of five records in a row no call fails and every
\* Delete finds its record; after the fifth Insert the root is an interior
\* node over two leaves, and after the third Delete the root is a leaf, the
\* height is 0, and the root holds records 3 and 4 and nothing else.
C28_ScenarioEndsInLeaf ==
  /\ tree.fail = "ok"
  /\ res.op = "Delete" => res.ok
  /\ nops = Len(ScenarioXs) =>
       /\ ~Node(tree, tree.root).isLeaf
       /\ Node(tree, tree.root).numEntries = 2
       /\ \A e \in EntriesOf(Node(tree, tree.root)) : Node(tree, e.data).isLeaf
  /\ nops = Len(ScenarioXs) + Len(ScenarioDeletes) =>
       /\ Node(tree, tree.root).isLeaf
       /\ Height(tree) = 0
       /\ Node(tree, tree.root).numEntries = 2
       /\ EntriesOf(Node(tree, tree.root)) =
            {[box |-> ScenarioBox(3), data |-> 3], [box |-> ScenarioBox(4), data |-> 4]}

\* The third Delete of the scenario has returned.
C28_Witness ==
  /\ nops = Len(ScenarioXs) + Len(ScenarioDeletes)
  /\ res.op = "Delete"
  /\ res.ok
  /\ res.data = 2
  /\ stored = BagAdd(BagAdd(EmptyBag, [box |-> ScenarioBox(3), data |-> 3]),
                     [box |-> ScenarioBox(4), data |-> 4])

\* C29: whenever the tree holds no records, before the first Insert and
\* after the last record has been deleted, the root identifier is NIL (-1).
C29_EmptyRootNil ==
  (stored = EmptyBag /\ tree.fail = "ok") => tree.root = -1

====
